---- MODULE Spec2Model ----
(***************************************************************************)
(* Model of the outlook-email-agent reply workflow.                        *)
(*                                                                         *)
(*   src/email_app.py                 notification endpoint (dispatcher)   *)
(*   src/services/email_listener.py   process_email_notification workflow  *)
(*   src/services/llm_services.py     the four language-model capabilities *)
(*   src/services/ms_graph_services.py mailbox gateway                     *)
(*   src/utils.py                     clean_html                           *)
(*                                                                         *)
(* Text values are sequences of tokens: "SP" is a whitespace character,    *)
(* "TAG" an HTML tag, every other token a word.  Python's None is the      *)
(* one-token text <<"None">>.                                              *)
(***************************************************************************)
EXTENDS Integers, Sequences, FiniteSets, TLC

\* ------------------------------------------------------------- bounds
\* Number of invocation slots (background tasks) the model keeps.
NumInv == 2
\* Largest configured MAX_REDRAFT_TRIES the model explores.
MaxTries == 2
\* Longest conversation the gateway returns.
MaxThread == 2

Invs == 1..NumInv

\* ------------------------------------------------------------- values
None == <<"None">>

\* Python truthiness of a text or None: `not x`.
Falsy(x) == x = None \/ x = <<>>

\* str.strip(): drop leading and trailing whitespace.
RECURSIVE LStrip(_)
LStrip(s) ==
    IF s = <<>> THEN <<>>
    ELSE IF Head(s) = "SP" THEN LStrip(Tail(s)) ELSE s

RECURSIVE RStrip(_)
RStrip(s) ==
    IF s = <<>> THEN <<>>
    ELSE IF s[Len(s)] = "SP" THEN RStrip(SubSeq(s, 1, Len(s) - 1)) ELSE s

Strip(s) == RStrip(LStrip(s))

\* BeautifulSoup(...).get_text(): the text without its tags.
RECURSIVE GetText(_)
GetText(s) ==
    IF s = <<>> THEN <<>>
    ELSE IF Head(s) = "TAG" THEN GetText(Tail(s))
    ELSE <<Head(s)>> \o GetText(Tail(s))

\* re.sub(r'\s+', ' ', text): every run of whitespace becomes one space.
RECURSIVE CollapseWS(_)
CollapseWS(s) ==
    IF Len(s) < 2 THEN s
    ELSE IF s[1] = "SP" /\ s[2] = "SP" THEN CollapseWS(Tail(s))
    ELSE <<Head(s)>> \o CollapseWS(Tail(s))

\* clean_html giving the empty text when the parser raises.
clean_html_Empty(html_content, fails) ==
    IF Falsy(html_content) THEN <<>>
    ELSE IF fails THEN <<>>
    ELSE Strip(CollapseWS(GetText(html_content)))

\* utils.clean_html; `fails` is whether the parser raised, in which case the
\* original content is returned.
clean_html(html_content, fails) ==
    IF Falsy(html_content) THEN <<>>
    ELSE IF fails THEN html_content
    ELSE Strip(CollapseWS(GetText(html_content)))

\* ------------------------------------------------------------- inputs
\* Raw subjects and bodies the mailbox may hold.
RawTexts == { <<>>, <<"SP">>, <<"TAG", "hi", "SP", "SP", "TAG">> }

Senders == { <<>>, <<"alice">> }

ConversationIds == { <<>>, <<"conv">> }

MessageIds == { "m1", "m2", "m3" }

\* Resources of a notification, as the segments between the slashes.  A
\* trailing empty segment is a trailing slash.
Resources ==
    { <<>>,
      <<"Users", "u", "Events", "m1">>,
      <<"Users", "u", "Messages", "m1">>,
      <<"Users", "u", "Messages", "">> }

ChangeTypes == { "created", "updated" }

Notes == [changeType : ChangeTypes, resource : Resources]

\* Notification payloads: no payload, an empty value list, one note, or
\* one note followed by a second "created" note for another message.
SecondNote == [changeType |-> "created", resource |-> <<"Users", "u", "Messages", "m2">>]

\* `empty` is Python's `not payload` (an empty JSON object).
Payloads ==
    { [empty |-> TRUE, value |-> <<>>], [empty |-> FALSE, value |-> <<>>] }
    \cup { [empty |-> FALSE, value |-> <<n>>] : n \in Notes }
    \cup { [empty |-> FALSE, value |-> <<n, SecondNote>>] : n \in Notes }

\* Requests to POST /api/graph-notifications: a validation handshake (with
\* no body, with a body that is not JSON, or with a "created" notification
\* as its body), a body that is not JSON, or a notification payload.
NoPayload == [empty |-> TRUE, value |-> <<>>]

CreatedPayload == [empty |-> FALSE, value |-> <<SecondNote>>]

Requests ==
    { [validationToken |-> "tok", json |-> TRUE, payload |-> NoPayload],
      [validationToken |-> "tok", json |-> FALSE, payload |-> NoPayload],
      [validationToken |-> "tok", json |-> TRUE, payload |-> CreatedPayload],
      [validationToken |-> "", json |-> FALSE, payload |-> NoPayload] }
    \cup { [validationToken |-> "", json |-> TRUE, payload |-> p] : p \in Payloads }

\* Messages the gateway may return for GET /messages/{id}; the one that is
\* not `present` is an empty response.
Emails ==
    [present : {TRUE}, subject : RawTexts, body : RawTexts, sender : Senders,
     conversationId : ConversationIds]

EmptyResponse ==
    [present |-> FALSE, subject |-> <<>>, body |-> <<>>, sender |-> <<>>,
     conversationId |-> <<>>]

\* What the gateway may answer to GET /messages/{id}.
MessageAnswers == Emails \cup {EmptyResponse}

\* Whether clean_html's parser raises on a field.
ParserFails == BOOLEAN

\* Responses of the language model to compose-reply (response.content).
RawDrafts == { <<>>, <<"SP">>, <<"SP", "draft", "SP">> }

\* Responses of the language model to summarize-thread.
RawSummaries == { <<"SP">>, <<"summary">> }

\* What the summarize call may give: a response, or None when it raises.
SummaryAnswers == RawSummaries \cup {None}

\* Conversations the gateway may return: message ids without repetition,
\* in any order, at most MaxThread of them.
RECURSIVE NoRepeat(_)
NoRepeat(s) ==
    \/ Len(s) < 2
    \/ /\ \A k \in 2..Len(s) : s[k] # s[1]
       /\ NoRepeat(Tail(s))

Threads ==
    { s \in UNION { [1..n -> MessageIds] : n \in 0..MaxThread } : NoRepeat(s) }

\* ------------------------------------------------------------- state
VARIABLES
    MAX_REDRAFT_TRIES,  \* the configured bound imported by email_listener
    toDeliver,          \* notifications the environment has still to deliver
    responses,          \* the endpoint's answer to the request of each slot
    inv,                \* the local variables of each workflow invocation
    calls,              \* the calls each invocation has made, in order
    mailbox,            \* the reply drafts the mailbox holds
    headers             \* graph_client.headers, the one client of every invocation

vars == <<MAX_REDRAFT_TRIES, toDeliver, responses, inv, calls, mailbox, headers>>

NoEmail ==
    [id |-> None, subject |-> None, body |-> None, clean_subject |-> None,
     clean_body |-> None, conversation_id |-> None, sender |-> None]

\* The locals of process_email_notification before it runs.
Idle ==
    [pc |-> "idle", outcome |-> "none", payload |-> NoPayload,
     message_id |-> None, email_data |-> NoEmail,
     conversation_messages |-> <<>>, conversation_summary |-> None,
     attempt |-> 0, draft_content |-> None, previous_draft |-> None,
     previous_draft_rejection_reason |-> None,
     is_sendable |-> FALSE, reason |-> None,
     reply_content |-> None, draft_id |-> 0, success |-> "unset"]

NoResponse == [status |-> 0, content |-> "", media_type |-> "none", scheduled |-> FALSE]

\* One entry of an invocation's call log: the function or request `op`, made
\* in loop iteration `n` with the arguments `arg`, ended as `res` and returned
\* the text `val` (None when it returned no text).  The workflow's own
\* functions are logged under their names, the requests they send to the
\* gateway and to the language model under the names in ExternalOps.
Call(op, n, arg, res, val) ==
    [op |-> op, attempt |-> n, arg |-> arg, res |-> res, val |-> val]

\* A request of MSGraphClient._make_request, logged as a call with the token
\* get_access_token gave for it and the headers it was sent with.
Request(op, n, arg, res, val, token, sent) ==
    [op |-> op, attempt |-> n, arg |-> arg, res |-> res, val |-> val,
     token |-> token, headers |-> sent]

\* The token the authority gives for an acquisition.  Every call of
\* get_access_token is a request of its own to the authority; its token is
\* named after the acquisition it answers, the n-th of invocation i (0, 0 for
\* the one made when the client is constructed), so that a header tells
\* which acquisition it was built from.
Token(i, n) == <<"token", i, n>>

\* MSGraphClient.__init__, lines 159-162: the headers built at construction.
InitialHeaders == [Authorization |-> Token(0, 0)]

\* _make_request reusing the headers the client holds instead of building them.
RequestHeaders_Cached(current, token) == current

\* _make_request, lines 180-183: the headers are built anew for every request.
RequestHeaders(current, token) == [Authorization |-> token]

GatewayOps == { "getMessage", "getConversation", "createReply", "updateDraft" }

ProviderOps == { "llm.classify", "llm.summarize", "llm.generate", "llm.judge" }

ExternalOps == GatewayOps \cup ProviderOps

\* The requests invocation i has sent through the gateway client.
Requested(i) == { k \in 1..Len(calls[i]) : calls[i][k].op \in GatewayOps }

\* _make_request, line 181: the token get_access_token gives for the next
\* request of invocation i, acquired for that request alone.
Tokens(i) == { Token(i, Cardinality(Requested(i)) + 1) }

Init ==
    /\ MAX_REDRAFT_TRIES \in 0..MaxTries
    /\ toDeliver = 1
    /\ responses = [i \in Invs |-> NoResponse]
    /\ inv = [i \in Invs |-> Idle]
    /\ calls = [i \in Invs |-> <<>>]
    /\ mailbox = <<>>
    /\ headers = InitialHeaders

\* Finish with the return after a failed compose lost: the failure is logged
\* and the loop goes on to validate.
Finish_NoReturn(i, locals, outcome, more) ==
    /\ inv' = [inv EXCEPT ![i] =
                  [locals EXCEPT !.pc = IF outcome = "FailedCompose"
                                        THEN "validate" ELSE "done",
                                 !.outcome = outcome]]
    /\ calls' = [calls EXCEPT ![i] = @ \o more]

\* The invocation returns (or raises) with the locals `locals` and the given
\* outcome, having made the calls `more`.  The function returns None on every
\* path; an outcome names the place where it ends:
\*   "Dropped"        lines 116-137, the notification is ignored
\*   "FailedFetch"    line 145, fetch_email_details returned nothing
\*   "Skipped"        line 158, the Response Gate said SKIP
\*   "FailedCompose"  line 212, no draft on some attempt
\*   "Abandoned"      line 251, the last draft was rejected
\*   "Unexpected"     line 256, the loop ran out with no sendable draft
\*   "Persisted"      line 261, the draft was saved
\*   "FailedPersist"  line 263, save_draft_to_outlook returned False
\*   "Raised"         line 267, an exception left the function
Finish(i, locals, outcome, more) ==
    /\ inv' = [inv EXCEPT ![i] = [locals EXCEPT !.pc = "done", !.outcome = outcome]]
    /\ calls' = [calls EXCEPT ![i] = @ \o more]

\* The invocation goes on with the locals `locals`, having made the calls `more`.
Goto(i, locals, more) ==
    /\ inv' = [inv EXCEPT ![i] = locals]
    /\ calls' = [calls EXCEPT ![i] = @ \o more]

\* The invocations that have begun and not returned, other than i: those a
\* request of which could run while a request of i does.
Overlapping(i) ==
    { j \in Invs \ {i} : inv[j].pc \notin {"idle", "unused", "start", "done"} }

\* _make_request, lines 180-197: the headers are written to the client (line
\* 180) and read back from it when the request is sent (lines 191-197).  The
\* request is sent with the headers it wrote unless a request of another
\* invocation runs between the two and leaves its own in the client.
SentHeaders(i, token) ==
    { RequestHeaders(headers, token) }
        \cup { RequestHeaders(headers, other) :
                 other \in UNION { Tokens(j) : j \in Overlapping(i) } }

\* ------------------------------------------------------------- endpoint
\* The responses of process_graph_notifications: the handshake (lines 79-83),
\* the body that is not JSON (line 90) and the notification (line 94).
Handshake(validation_token) ==
    [status |-> 200, content |-> validation_token, media_type |-> "text/plain",
     scheduled |-> FALSE]

InvalidJson ==
    [status |-> 400, content |-> "Invalid JSON payload", media_type |-> "none",
     scheduled |-> FALSE]

Received(scheduled) ==
    [status |-> 202, content |-> "Notification received", media_type |-> "none",
     scheduled |-> scheduled]

\* Acknowledge with the scheduling of the background task lost.
Acknowledge_NoTask(req) ==
    IF req.validationToken # "" THEN Handshake(req.validationToken)
    ELSE IF ~req.json THEN InvalidJson
    ELSE Received(FALSE)

\* Acknowledge with the validation token not looked at.
Acknowledge_NoHandshake(req) ==
    IF ~req.json THEN InvalidJson ELSE Received(TRUE)

\* process_graph_notifications, lines 75-94: the response to a request and
\* whether a background task is scheduled with it.
Acknowledge(req) ==
    IF req.validationToken # "" THEN Handshake(req.validationToken)
    ELSE IF ~req.json THEN InvalidJson
    ELSE Received(TRUE)

\* email_app.process_graph_notifications
Notify(i, req) ==
    /\ toDeliver > 0
    /\ inv[i].pc = "idle"
    /\ \A j \in Invs : j < i => inv[j].pc # "idle"
    /\ toDeliver' = toDeliver - 1
    /\ responses' = [responses EXCEPT ![i] = Acknowledge(req)]
    /\ IF Acknowledge(req).scheduled
       THEN inv' = [inv EXCEPT ![i] = [@ EXCEPT !.pc = "start", !.payload = req.payload]]
       ELSE inv' = [inv EXCEPT ![i].pc = "unused"]
    /\ UNCHANGED <<MAX_REDRAFT_TRIES, calls, mailbox, headers>>

\* ------------------------------------------------------------- workflow
\* `"Messages/" in resource`: a segment Messages followed by a slash.
RefersToMessage(resource) ==
    \E k \in 1..(Len(resource) - 1) : resource[k] = "Messages"

\* resource.split("Messages/")[-1]: what follows the last "Messages/".
MessageIdOf(resource) ==
    LET ks == { k \in 1..(Len(resource) - 1) : resource[k] = "Messages" }
        last == CHOOSE k \in ks : \A j \in ks : j <= k
        rest == SubSeq(resource, last + 1, Len(resource))
    IN  IF rest = <<"">> THEN <<>> ELSE rest

\* IsCreated with the check on the change type lost.
IsCreated_Any(note) == TRUE

\* Line 130: the change type that is processed.
IsCreated(note) == note.changeType = "created"

\* NoteOf taking the last notification of the list.
NoteOf_Last(notification) == notification[Len(notification)]

\* Line 128: `note = notification[0]`, the one notification that is processed.
NoteOf(notification) == notification[1]

\* process_email_notification, lines 116-140: the checks made before any call.
Receive(i) ==
    /\ inv[i].pc = "start"
    /\ LET payload == inv[i].payload
           notification == payload.value
       IN  IF payload.empty \/ notification = <<>>
           THEN Finish(i, inv[i], "Dropped", <<>>)
           ELSE LET note == NoteOf(notification)
                IN  IF ~IsCreated(note)
                    THEN Finish(i, inv[i], "Dropped", <<>>)
                    ELSE IF ~RefersToMessage(note.resource)
                    THEN Finish(i, inv[i], "Dropped", <<>>)
                    ELSE Goto(i, [inv[i] EXCEPT
                                    !.pc = "fetch",
                                    !.message_id = MessageIdOf(note.resource)],
                              <<>>)
    /\ UNCHANGED <<MAX_REDRAFT_TRIES, toDeliver, responses, mailbox, headers>>

\* The record fetch_email_details builds from the gateway's message
\* (lines 40-62); failS and failB are whether clean_html's parser raised.
EmailRecord(message_id, email, failS, failB) ==
    [id |-> message_id,
     subject |-> email.subject,
     body |-> email.body,
     clean_subject |-> clean_html(email.subject, failS),
     clean_body |-> clean_html(email.body, failB),
     conversation_id |-> email.conversationId,
     sender |-> email.sender]

\* A call of clean_html (lines 47-48), logged with the text it was given,
\* whether its parser raised (it is not run on an empty text) and the text
\* it returned.
Cleaned(html_content, fails, text) ==
    Call("clean_html", 0, html_content,
         IF fails /\ ~Falsy(html_content) THEN "raise" ELSE "ok", text)

\* NoEmailData with the empty response not detected.
NoEmailData_Never(email) == FALSE

\* fetch_email_details, line 36: `if not email`.
NoEmailData(email) == ~email.present

\* fetch_email_details and lines 142-151 of process_email_notification.
\* The gateway raises, returns nothing, or returns a message.
\* The gateway answers with one of `emails`; the parser fails as in `fails`.
FetchFrom(i, emails, fails) ==
    /\ inv[i].pc = "fetch"
    /\ \E token \in Tokens(i) : \E sent \in SentHeaders(i, token) :
         LET message_id == inv[i].message_id
             get(res) == Request("getMessage", 0, message_id, res, None, token, sent)
         IN  IF Falsy(message_id)
             THEN /\ Finish(i, inv[i], "FailedFetch", <<>>)
                  /\ UNCHANGED headers
             ELSE /\ headers' = sent
                  /\ \/ Finish(i, inv[i], "Raised", <<get("raise")>>)
                     \/ \E email \in emails, failS, failB \in fails :
                           IF NoEmailData(email)
                           THEN Finish(i, inv[i], "FailedFetch", <<get("empty")>>)
                           ELSE LET email_data ==
                                        EmailRecord(message_id, email, failS, failB)
                                IN  Goto(i, [inv[i] EXCEPT
                                               !.pc = "classify",
                                               !.email_data = email_data],
                                         <<get(IF email.present THEN "ok" ELSE "empty"),
                                           Cleaned(email.subject, failS,
                                                   email_data.clean_subject),
                                           Cleaned(email.body, failB,
                                                   email_data.clean_body)>>)
    /\ UNCHANGED <<MAX_REDRAFT_TRIES, toDeliver, responses, mailbox>>

Fetch(i) == FetchFrom(i, MessageAnswers, ParserFails)

\* can_respond_to_email returning the label's truthiness instead of comparing it.
can_respond_to_email_Truthy(subject, body, llm) ==
    ~(Falsy(subject) /\ Falsy(body)) /\ llm # "raise"

\* can_respond_to_email answering RESPOND when the provider fails (fail-open).
can_respond_to_email_FailOpen(subject, body, llm) ==
    ~(Falsy(subject) /\ Falsy(body)) /\ llm \in {"RESPOND", "raise"}

\* llm_services.can_respond_to_email; `llm` is the provider's label or "raise",
\* "none" when the provider is not asked.
ClassifyAsksProvider(subject, body) == ~(Falsy(subject) /\ Falsy(body))

can_respond_to_email(subject, body, llm) ==
    IF ~ClassifyAsksProvider(subject, body) THEN FALSE
    ELSE IF llm = "raise" THEN FALSE
    ELSE llm = "RESPOND"

\* AfterGate gathering the conversation context before looking at the label.
AfterGate_ContextFirst(classification, conversation_id) ==
    IF ~Falsy(conversation_id) THEN "conversation"
    ELSE IF ~classification THEN "Skipped" ELSE "compose"

\* AfterGate waiting, after RESPOND, for something that never comes.
AfterGate_Wait(classification, conversation_id) ==
    IF ~classification THEN "Skipped" ELSE "await"

\* AfterGate with the return on SKIP lost.
AfterGate_NoReturn(classification, conversation_id) ==
    IF Falsy(conversation_id) THEN "compose" ELSE "conversation"

\* Lines 156-165: where the workflow goes after the Response Gate.  The
\* conversation is fetched after the gate, and only for a message that has a
\* conversation id.
AfterGate(classification, conversation_id) ==
    IF ~classification THEN "Skipped"
    ELSE IF Falsy(conversation_id) THEN "compose" ELSE "conversation"

\* Lines 153-165 and 188-190: the Response Gate, then the locals of the loop.
Classify(i) ==
    /\ inv[i].pc = "classify"
    /\ LET clean_subject == inv[i].email_data.clean_subject
           clean_body == inv[i].email_data.clean_body
       IN  \E llm \in IF ClassifyAsksProvider(clean_subject, clean_body)
                      THEN {"RESPOND", "SKIP", "raise"} ELSE {"none"} :
             LET classification == can_respond_to_email(clean_subject, clean_body, llm)
                 made == <<Call("can_respond_to_email", 0, <<clean_subject, clean_body>>,
                                IF classification THEN "RESPOND" ELSE "SKIP", None)>>
                         \o (IF llm = "none" THEN <<>>
                             ELSE <<Call("llm.classify", 0,
                                         <<clean_subject, clean_body>>, llm, None)>>)
                 next == AfterGate(classification, inv[i].email_data.conversation_id)
             IN  IF next = "Skipped"
                 THEN Finish(i, inv[i], "Skipped", made)
                 ELSE Goto(i, [inv[i] EXCEPT
                                 !.pc = next,
                                 !.conversation_messages = <<>>,
                                 !.conversation_summary = None,
                                 !.attempt = 0,
                                 !.draft_content = None,
                                 !.previous_draft = None,
                                 !.previous_draft_rejection_reason = None],
                           made)
    /\ UNCHANGED <<MAX_REDRAFT_TRIES, toDeliver, responses, mailbox, headers>>

\* NeedsSummary with the threshold off by one.
NeedsSummary_OffByOne(conversation_messages) ==
    conversation_messages # <<>> /\ Len(conversation_messages) > 2

\* Line 173: whether the conversation is summarized.
NeedsSummary(conversation_messages) ==
    conversation_messages # <<>> /\ Len(conversation_messages) > 1

\* AfterConversationError with the exception raised again.
AfterConversationError_Raise == "raise"

\* Lines 183-185: the exception of the conversation fetch is logged and the
\* workflow continues without conversation context.
AfterConversationError == "compose"

\* Lines 166-185: the conversation fetch.  An exception is logged and the
\* workflow goes on without context.  The gateway answers with one of `threads`.
ConversationFrom(i, threads) ==
    /\ inv[i].pc = "conversation"
    /\ \E token \in Tokens(i) : \E sent \in SentHeaders(i, token) :
         LET conversation_id == inv[i].email_data.conversation_id
             get(res, val) ==
                 Request("getConversation", 0, conversation_id, res, val, token, sent)
         IN  /\ headers' = sent
             /\ \/ IF AfterConversationError = "compose"
                   THEN Goto(i, [inv[i] EXCEPT !.pc = "compose"], <<get("raise", None)>>)
                   ELSE Finish(i, inv[i], "Raised", <<get("raise", None)>>)
                \/ \E thread \in threads :
                      Goto(i, [inv[i] EXCEPT
                                 !.pc = IF NeedsSummary(thread)
                                        THEN "summarize" ELSE "compose",
                                 !.conversation_messages = thread],
                           <<get("ok", thread)>>)
    /\ UNCHANGED <<MAX_REDRAFT_TRIES, toDeliver, responses, mailbox>>

Conversation(i) == ConversationFrom(i, Threads)

\* llm_services.create_conversation_summary, line 236: the messages summarized.
previous_messages(conversation_messages) == Tail(conversation_messages)

\* SummaryOf with the check for an empty summary lost.
SummaryOf_Unchecked(content) ==
    IF content = None THEN None ELSE Strip(content)

\* create_conversation_summary, lines 283-299: the summary made of the
\* provider's answer; `content` is None when the provider raised.
SummaryOf(content) ==
    IF content = None THEN None
    ELSE IF Falsy(content) \/ Falsy(Strip(content)) THEN None
    ELSE Strip(content)

\* create_conversation_summary, line 230: whether there is anything to summarize.
HasPrevious(conversation_messages) ==
    ~(conversation_messages = <<>> \/ Len(conversation_messages) <= 1)

\* Line 175 and create_conversation_summary; the provider answers with one
\* of `summaries` (None when it raises).
SummarizeFrom(i, summaries) ==
    /\ inv[i].pc = "summarize"
    /\ LET conversation_messages == inv[i].conversation_messages
           summary(res, val) ==
               Call("create_conversation_summary", 0, conversation_messages, res, val)
       IN  IF ~HasPrevious(conversation_messages)
           THEN Goto(i, [inv[i] EXCEPT !.pc = "compose"], <<summary("None", None)>>)
           ELSE \E content \in summaries :
                  Goto(i, [inv[i] EXCEPT
                             !.pc = "compose",
                             !.conversation_summary = SummaryOf(content)],
                       <<summary(IF Falsy(SummaryOf(content)) THEN "None" ELSE "ok",
                                 SummaryOf(content)),
                         Call("llm.summarize", 0,
                              previous_messages(conversation_messages),
                              IF content = None THEN "raise" ELSE "ok", content)>>)
    /\ UNCHANGED <<MAX_REDRAFT_TRIES, toDeliver, responses, mailbox, headers>>

Summarize(i) == SummarizeFrom(i, SummaryAnswers)

\* ------------------------------------------------------------- redraft loop
\* Positional parameters of create_email_draft_reply (its signature).
ComposerArity == 4

\* Lines 197-205: the arguments the orchestrator passes to the composer.
ComposeArgs(l) ==
    IF l.attempt = 0
    THEN <<l.email_data.clean_subject, l.email_data.clean_body,
           l.email_data.sender, l.conversation_summary>>
    ELSE <<l.email_data.clean_subject, l.email_data.clean_body,
           l.email_data.sender, l.conversation_summary,
           l.previous_draft, l.previous_draft_rejection_reason>>

\* BindsArguments for a composer that takes the feedback arguments as well.
BindsArguments_Any(args) == TRUE

\* Python binds the arguments before the body runs: too many positional
\* arguments raise TypeError at the call.
BindsArguments(args) == Len(args) <= ComposerArity

\* ComposerHasInputs with the sender left out of the check.
ComposerHasInputs_NoSender(args) == ~Falsy(args[1]) /\ ~Falsy(args[2])

\* create_email_draft_reply, line 148: all([subject, body, sender]).
ComposerHasInputs(args) == ~Falsy(args[1]) /\ ~Falsy(args[2]) /\ ~Falsy(args[3])

\* create_email_draft_reply, lines 171-190: the user prompt, as the values
\* it holds: sender, subject, body and, when there is one, the summary.
ComposerPrompt(args) ==
    <<args[3], args[1], args[2]>>
        \o (IF Falsy(args[4]) THEN <<>> ELSE <<args[4]>>)

\* create_email_draft_reply, lines 204-209: the draft made of the provider's
\* answer.
DraftOf(content) ==
    IF Falsy(content) \/ Falsy(Strip(content)) THEN None ELSE Strip(content)

\* ComposeFailed with the check of the draft lost.
ComposeFailed_Never(draft_content) == FALSE

\* Line 210: `if not draft_content`.
ComposeFailed(draft_content) == Falsy(draft_content)

\* Lines 192-214: one composition.  The composer's exception and its empty
\* result both end the invocation.  The provider answers with one of `drafts`.
ComposeFrom(i, drafts) ==
    /\ inv[i].pc = "compose"
    /\ LET l == inv[i]
           args == ComposeArgs(l)
           compose(res, val) == Call("create_email_draft_reply", l.attempt, args, res, val)
           generate(res, val) ==
               Call("llm.generate", l.attempt, ComposerPrompt(args), res, val)
           \* what the orchestrator does with the draft it holds after the call
           go(draft, made) ==
               IF ComposeFailed(draft)
               THEN Finish(i, [l EXCEPT !.draft_content = draft], "FailedCompose", made)
               ELSE Goto(i, [l EXCEPT !.pc = "validate", !.draft_content = draft], made)
       IN  IF ~BindsArguments(args)
           THEN go(None, <<compose("TypeError", None)>>)
           ELSE IF ~ComposerHasInputs(args)
           THEN go(None, <<compose("None", None)>>)
           ELSE \/ go(None, <<compose("raise", None), generate("raise", None)>>)
                \/ \E content \in drafts :
                      LET draft == DraftOf(content)
                      IN  go(draft, <<compose(IF draft = None THEN "None" ELSE "ok", draft),
                                      generate("ok", content)>>)
    /\ UNCHANGED <<MAX_REDRAFT_TRIES, toDeliver, responses, mailbox, headers>>

Compose(i) == ComposeFrom(i, RawDrafts)

\* can_send_reply, line 85: all([email_subject, email_body, draft_response]).
ValidatorAsksProvider(subject, body, draft) ==
    ~Falsy(subject) /\ ~Falsy(body) /\ ~Falsy(draft)

\* llm_services.can_send_reply: the value it returns.  `llm` is the
\* provider's label or "raise".  The function catches the provider's
\* exception and returns a plain bool in every case.
can_send_reply(subject, body, draft, llm) ==
    IF ~ValidatorAsksProvider(subject, body, draft)
    THEN [kind |-> "bool", value |-> FALSE, reason |-> None]
    ELSE IF llm = "raise"
    THEN [kind |-> "bool", value |-> FALSE, reason |-> None]
    ELSE [kind |-> "bool", value |-> llm = "SENDABLE", reason |-> None]

\* can_send_reply, lines 111-117: the user prompt, as the values it holds.
ValidatorPrompt(subject, body, draft, prev_summary) ==
    <<subject, body>>
        \o (IF Falsy(prev_summary) THEN <<>> ELSE <<prev_summary>>)
        \o <<draft>>

\* Lines 219-228: the verdict the orchestrator reads off the returned value.
Verdict(validation_result) ==
    IF validation_result.kind = "raise"
    THEN [is_sendable |-> FALSE,
          reason |-> <<"Validation error:">> \o validation_result.reason]
    ELSE IF validation_result.kind = "tuple"
    THEN [is_sendable |-> validation_result.value,
          reason |-> validation_result.reason]
    ELSE [is_sendable |-> validation_result.value,
          reason |-> <<"No reason provided">>]

\* Line 243: whether a redraft is still allowed.
HasMoreAttempts(attempt) == attempt < MAX_REDRAFT_TRIES

\* Line 192: range(MAX_REDRAFT_TRIES + 1).
InRange(attempt) == attempt < MAX_REDRAFT_TRIES + 1

\* AfterVerdict persisting the last draft when the attempts run out.
AfterVerdict_PersistLast(is_sendable, attempt) ==
    IF is_sendable THEN "persist"
    ELSE IF HasMoreAttempts(attempt)
    THEN (IF InRange(attempt + 1) THEN "compose" ELSE "Unexpected")
    ELSE "persist"

\* AfterVerdict with the acceptance looked at only on the last attempt.
AfterVerdict_AcceptLast(is_sendable, attempt) ==
    IF HasMoreAttempts(attempt) THEN "compose"
    ELSE IF is_sendable THEN "persist" ELSE "Abandoned"

\* AfterVerdict with the bound on the attempts lost: every rejection redrafts.
AfterVerdict_NoLimit(is_sendable, attempt) ==
    IF is_sendable THEN "persist" ELSE "compose"

\* Lines 192 and 234-256: where the orchestrator goes after a verdict.
AfterVerdict(is_sendable, attempt) ==
    IF is_sendable THEN "persist"
    ELSE IF HasMoreAttempts(attempt)
    THEN (IF InRange(attempt + 1) THEN "compose" ELSE "Unexpected")
    ELSE "Abandoned"

\* Lines 217-256: one validation and what the orchestrator does with it.
Validate(i) ==
    /\ inv[i].pc = "validate"
    /\ LET l == inv[i]
           clean_subject == l.email_data.clean_subject
           clean_body == l.email_data.clean_body
           asks == ValidatorAsksProvider(clean_subject, clean_body, l.draft_content)
           validate(res, val) ==
               Call("can_send_reply", l.attempt,
                    <<clean_subject, clean_body, l.draft_content,
                      l.conversation_summary>>, res, val)
           judge(res) ==
               Call("llm.judge", l.attempt,
                    ValidatorPrompt(clean_subject, clean_body, l.draft_content,
                                    l.conversation_summary), res, None)
       IN  \E llm \in IF asks THEN {"SENDABLE", "SKIP", "raise"} ELSE {"none"} :
             LET validation_result ==
                     can_send_reply(clean_subject, clean_body, l.draft_content, llm)
                 verdict == Verdict(validation_result)
                 next == AfterVerdict(verdict.is_sendable, l.attempt)
                 judged == [l EXCEPT !.is_sendable = verdict.is_sendable,
                                      !.reason = verdict.reason]
                 made == <<validate(IF verdict.is_sendable THEN "accepted" ELSE "rejected",
                                    verdict.reason)>>
                         \o (IF asks THEN <<judge(llm)>> ELSE <<>>)
             IN  CASE next = "persist" ->
                        Goto(i, [judged EXCEPT !.pc = "persist"], made)
                   [] next = "compose" ->
                        Goto(i, [judged EXCEPT
                                   !.pc = "compose",
                                   !.previous_draft = l.draft_content,
                                   !.previous_draft_rejection_reason = verdict.reason,
                                   !.attempt = l.attempt + 1],
                             made)
                   [] next = "Unexpected" ->
                        Finish(i, [judged EXCEPT
                                     !.previous_draft = l.draft_content,
                                     !.previous_draft_rejection_reason = verdict.reason],
                               "Unexpected", made)
                   [] OTHER -> Finish(i, judged, "Abandoned", made)
    /\ UNCHANGED <<MAX_REDRAFT_TRIES, toDeliver, responses, mailbox, headers>>

\* ------------------------------------------------------------- persist
\* PersistHasInputs refusing a message the mailbox already holds a draft for.
PersistHasInputs_Once(message_id, draft_content) ==
    /\ ~Falsy(message_id) /\ ~Falsy(draft_content)
    /\ \A d \in DOMAIN mailbox : mailbox[d].replyTo # message_id

\* save_draft_to_outlook, line 83, and create_draft_reply, line 337.
PersistHasInputs(message_id, draft_content) ==
    ~Falsy(message_id) /\ ~Falsy(draft_content)

\* PersistedContent handing over the previous draft instead of the current one.
PersistedContent_Previous(l) == l.previous_draft

\* Line 258: the content handed to save_draft_to_outlook.
PersistedContent(l) == l.draft_content

\* Line 258, save_draft_to_outlook and the first request of
\* MSGraphClient.create_draft_reply: POST .../createReply.  `success` is what
\* save_draft_to_outlook gives back: "True", "False", or "raised" when the
\* gateway's exception is re-raised at line 105.
PersistCreate(i) ==
    /\ inv[i].pc = "persist"
    /\ \E token \in Tokens(i) : \E sent \in SentHeaders(i, token) :
         LET l == inv[i]
             content == PersistedContent(l)
             persist == Call("save_draft_to_outlook", l.attempt, content, "called", None)
             post(res, id) ==
                 Request("createReply", l.attempt, l.message_id, res, id, token, sent)
         IN  IF ~PersistHasInputs(l.message_id, content)
             THEN /\ Finish(i, [l EXCEPT !.success = "False"], "FailedPersist",
                            <<persist>>)
                  /\ UNCHANGED <<mailbox, headers>>
             ELSE /\ headers' = sent
                  /\ \/ /\ Finish(i, [l EXCEPT !.success = "raised"], "Raised",
                                   <<persist, post("raise", None)>>)
                        /\ UNCHANGED mailbox
                     \/ /\ Finish(i, [l EXCEPT !.success = "False"], "FailedPersist",
                                   <<persist, post("empty", None)>>)
                        /\ UNCHANGED mailbox
                     \/ /\ Goto(i, [l EXCEPT !.pc = "update",
                                              !.reply_content = content,
                                              !.draft_id = Len(mailbox) + 1],
                                 <<persist, post("ok", <<Len(mailbox) + 1>>)>>)
                        /\ mailbox' = Append(mailbox,
                                             [replyTo |-> l.message_id, content |-> <<>>])
    /\ UNCHANGED <<MAX_REDRAFT_TRIES, toDeliver, responses>>

\* Saved with the check of the identifier lost: any response counts as saved.
Saved_Any(res) == TRUE

\* save_draft_to_outlook, line 96: whether the gateway's result counts as saved.
\* `res` is what PATCH returned: "ok" a message with its id, "noid" a body
\* without an id, "empty" nothing.
Saved(res) == res = "ok"

\* update_endpoint addressing the PATCH to another message.
update_endpoint_Next(draft_id) == draft_id + 1

\* Line 355 of create_draft_reply: the message the PATCH is addressed to.
update_endpoint(draft_id) == draft_id

\* The second request of create_draft_reply, PATCH .../messages/{draft_id},
\* and lines 259-263.
PersistUpdate(i) ==
    /\ inv[i].pc = "update"
    /\ \E token \in Tokens(i) : \E sent \in SentHeaders(i, token) :
         LET l == inv[i]
             target == update_endpoint(l.draft_id)
             patch(res) ==
                 Request("updateDraft", l.attempt, <<target, l.reply_content>>, res, None,
                         token, sent)
             filled == IF target \in DOMAIN mailbox
                       THEN [mailbox EXCEPT ![target].content = l.reply_content]
                       ELSE mailbox
         IN  /\ headers' = sent
             /\ \/ /\ Finish(i, [l EXCEPT !.success = "raised"], "Raised",
                              <<patch("raise")>>)
                   /\ UNCHANGED mailbox
                \/ /\ Finish(i, [l EXCEPT !.success = "False"], "FailedPersist",
                              <<patch("empty")>>)
                   /\ UNCHANGED mailbox
                \/ \E res \in {"ok", "noid"} :
                      /\ Finish(i, [l EXCEPT
                                      !.success = IF Saved(res) THEN "True" ELSE "False"],
                                IF Saved(res) THEN "Persisted" ELSE "FailedPersist",
                                <<patch(res)>>)
                      /\ mailbox' = filled
    /\ UNCHANGED <<MAX_REDRAFT_TRIES, toDeliver, responses>>

\* ------------------------------------------------------------- system
Step(i) ==
    \/ Receive(i)
    \/ Fetch(i)
    \/ Classify(i)
    \/ Conversation(i)
    \/ Summarize(i)
    \/ Compose(i)
    \/ Validate(i)
    \/ PersistCreate(i)
    \/ PersistUpdate(i)

Next ==
    \/ \E i \in Invs, req \in Requests : Notify(i, req)
    \/ \E i \in Invs : Step(i)

Spec == Init /\ [][Next]_vars

\* The background task is run once it is scheduled, and every call it makes
\* returns or fails: no step of a started invocation is put off for ever.
SpecFair == Spec /\ \A i \in Invs : WF_vars(Step(i))

\* ------------------------------------------------------------- duplicate delivery
\* The subscription delivers the "created" notification of one message twice
\* and the endpoint schedules one invocation for each delivery.  Both
\* invocations fetch the same message.
DuplicateRequest ==
    [validationToken |-> "", json |-> TRUE,
     payload |-> [empty |-> FALSE,
                  value |-> <<[changeType |-> "created",
                               resource |-> <<"Users", "u", "Messages", "m1">>]>>]]

DuplicateEmail ==
    [present |-> TRUE, subject |-> <<"TAG", "hi", "SP", "SP", "TAG">>,
     body |-> <<"TAG", "hi", "SP", "SP", "TAG">>, sender |-> <<"alice">>,
     conversationId |-> <<"conv">>]

DuplicateEmails == { DuplicateEmail }

DuplicateFails == { FALSE }

DuplicateThreads == { <<"m1">>, <<"m2", "m1">> }

DuplicateSummaries == { <<"summary">> }

DuplicateDrafts == { <<"SP">>, <<"SP", "draft", "SP">> }

InitTwice ==
    /\ MAX_REDRAFT_TRIES \in 0..MaxTries
    /\ toDeliver = 2
    /\ responses = [i \in Invs |-> NoResponse]
    /\ inv = [i \in Invs |-> Idle]
    /\ calls = [i \in Invs |-> <<>>]
    /\ mailbox = <<>>
    /\ headers = InitialHeaders

\* HasTheLoop for background tasks run on threads of their own: an invocation
\* takes its steps whatever the others are doing.
HasTheLoop_Threads(i) == TRUE

\* The background task is a coroutine run on the server's one event loop
\* (uvicorn.run, email_app.py:148), and no await inside it suspends: the
\* gateway and the language model are called with blocking calls.  Once an
\* invocation has begun, the endpoint and the other invocations wait until it
\* has returned; a scheduled invocation that has not begun is at "start".
HasTheLoop(i) ==
    \A j \in Invs \ {i} : inv[j].pc \in {"idle", "unused", "start", "done"}

NotifyTwice(i) == HasTheLoop(i) /\ Notify(i, DuplicateRequest)

FetchTwice(i) == FetchFrom(i, DuplicateEmails, DuplicateFails)

ConversationTwice(i) == ConversationFrom(i, DuplicateThreads)

SummarizeTwice(i) == SummarizeFrom(i, DuplicateSummaries)

ComposeTwice(i) == ComposeFrom(i, DuplicateDrafts)

StepTwice(i) ==
    \/ HasTheLoop(i) /\ Receive(i)
    \/ HasTheLoop(i) /\ FetchTwice(i)
    \/ HasTheLoop(i) /\ Classify(i)
    \/ HasTheLoop(i) /\ ConversationTwice(i)
    \/ HasTheLoop(i) /\ SummarizeTwice(i)
    \/ HasTheLoop(i) /\ ComposeTwice(i)
    \/ HasTheLoop(i) /\ Validate(i)
    \/ HasTheLoop(i) /\ PersistCreate(i)
    \/ HasTheLoop(i) /\ PersistUpdate(i)

NextTwice ==
    \/ \E i \in Invs : NotifyTwice(i)
    \/ \E i \in Invs : StepTwice(i)

SpecTwice == InitTwice /\ [][NextTwice]_vars

\* ------------------------------------------------------------- properties
\* The positions of the entries `op` in the log of invocation i.
Entries(i, op) == { k \in 1..Len(calls[i]) : calls[i][k].op = op }

Count(i, op) == Cardinality(Entries(i, op))

\* The requests invocation i has sent to the gateway and the language model.
ExternalCalls(i) == { k \in 1..Len(calls[i]) : calls[i][k].op \in ExternalOps }

\* The first note of the notification invocation i was started with, if any.
HasNote(i) == ~inv[i].payload.empty /\ inv[i].payload.value # <<>>

FirstNote(i) == inv[i].payload.value[1]

\* C1: the number of compose calls and the number of validate calls of an
\* invocation are each at most MAX_REDRAFT_TRIES + 1.
C1_AttemptsBounded ==
    \A i \in Invs :
        /\ Count(i, "create_email_draft_reply") <= MAX_REDRAFT_TRIES + 1
        /\ Count(i, "can_send_reply") <= MAX_REDRAFT_TRIES + 1
        /\ \A k \in Entries(i, "create_email_draft_reply") :
               calls[i][k].attempt <= MAX_REDRAFT_TRIES

\* The last allowed compose call has been made after a rejection.
C1_Witness ==
    \E i \in Invs :
        /\ MAX_REDRAFT_TRIES >= 1
        /\ Count(i, "create_email_draft_reply") = MAX_REDRAFT_TRIES + 1
        /\ \E k \in Entries(i, "can_send_reply") : calls[i][k].res = "rejected"

\* C2: once the Quality Gate has accepted the draft of attempt k, exactly one
\* persist call is made, and its content is the draft composed on attempt k.
\* (At pc = "persist" the acceptance is made and the persist call is next.)
C2_AcceptedDraftPersistedOnce ==
    \A i \in Invs :
        \A v \in Entries(i, "can_send_reply") :
            (calls[i][v].res = "accepted" /\ inv[i].pc # "persist") =>
                /\ Count(i, "save_draft_to_outlook") = 1
                /\ \A p \in Entries(i, "save_draft_to_outlook") :
                       \E c \in Entries(i, "create_email_draft_reply") :
                           /\ calls[i][c].attempt = calls[i][v].attempt
                           /\ calls[i][c].res = "ok"
                           /\ calls[i][p].arg = calls[i][c].val

\* An accepted draft has been handed to the persister and the invocation ended.
C2_Witness ==
    \E i \in Invs :
        /\ inv[i].pc = "done"
        /\ \E v \in Entries(i, "can_send_reply") : calls[i][v].res = "accepted"
        /\ Count(i, "save_draft_to_outlook") = 1

\* The composer's provider answered every request it got with a draft, and
\* the message had the subject, body and sender the composer needs.
ComposerHealthy(i) ==
    \A c \in Entries(i, "create_email_draft_reply") :
        calls[i][c].res \notin {"raise", "None"}

\* C3: when the Quality Gate rejects every draft, with a composer that answers
\* every request, the loop runs MAX_REDRAFT_TRIES + 1 attempts, the invocation
\* ends abandoned and no persist call is made.
C3_AllRejectedAbandons ==
    \A i \in Invs :
        ( /\ inv[i].pc = "done"
          /\ Count(i, "can_send_reply") >= 1
          /\ \A v \in Entries(i, "can_send_reply") : calls[i][v].res = "rejected"
          /\ ComposerHealthy(i) ) =>
            /\ inv[i].outcome = "Abandoned"
            /\ Count(i, "create_email_draft_reply") = MAX_REDRAFT_TRIES + 1
            /\ Count(i, "can_send_reply") = MAX_REDRAFT_TRIES + 1
            /\ Count(i, "save_draft_to_outlook") = 0

\* Whether the text `x` is one of the values the prompt `prompt` holds.
Holds(prompt, x) == \E k \in 1..Len(prompt) : prompt[k] = x

\* C4: for every compose call of an attempt n+1 >= 1 the composer generates
\* the draft from a prompt that holds the draft and the rejection reason of
\* attempt n.
C4_FeedbackReachesComposer ==
    \A i \in Invs :
        \A c \in Entries(i, "create_email_draft_reply") :
            calls[i][c].attempt >= 1 =>
                \E g \in Entries(i, "llm.generate"),
                   d \in Entries(i, "create_email_draft_reply"),
                   v \in Entries(i, "can_send_reply") :
                    /\ calls[i][g].attempt = calls[i][c].attempt
                    /\ calls[i][d].attempt = calls[i][c].attempt - 1
                    /\ calls[i][v].attempt = calls[i][c].attempt - 1
                    /\ Holds(calls[i][g].arg, calls[i][d].val)
                    /\ Holds(calls[i][g].arg, calls[i][v].val)

\* The resource names a message: it ends in Messages/<id>.
NamesMessage(resource) ==
    /\ Len(resource) >= 2
    /\ resource[Len(resource) - 1] = "Messages"
    /\ resource[Len(resource)] # ""

\* C5: a notification that is not "created", or whose resource does not
\* reference a message, causes no external call and ends without raising:
\* it is dropped at lines 130-137 or, for a resource ending in "Messages/"
\* with no id after it, inside fetch_email_details before the request.
C5_IgnoredNotificationMakesNoCall ==
    \A i \in Invs :
        ( /\ inv[i].pc \notin {"idle", "unused", "start"}
          /\ HasNote(i)
          /\ \/ FirstNote(i).changeType # "created"
             \/ ~NamesMessage(FirstNote(i).resource) ) =>
            /\ ExternalCalls(i) = {}
            /\ calls[i] = <<>>
            /\ inv[i].pc \in {"fetch", "done"}
            /\ inv[i].pc = "fetch" => Falsy(inv[i].message_id)
            /\ inv[i].pc = "done" => inv[i].outcome \in {"Dropped", "FailedFetch"}

\* An "updated" notification for a message has been processed.
C5_Witness ==
    \E i \in Invs :
        /\ inv[i].pc = "done"
        /\ HasNote(i)
        /\ FirstNote(i).changeType = "updated"
        /\ RefersToMessage(FirstNote(i).resource)

\* The Response Gate returned SKIP in invocation i.
GateSkipped(i) ==
    \E k \in Entries(i, "can_respond_to_email") : calls[i][k].res = "SKIP"

\* The provider labelled the message of invocation i SKIP.
ProviderSaidSkip(i) ==
    \E k \in Entries(i, "llm.classify") : calls[i][k].res = "SKIP"

\* C6: when the Response Gate returns SKIP (and whenever the provider's label
\* is SKIP), no composer, validator or persister call is made and the
\* invocation ends skipped.
C6_SkipMakesNoDraft ==
    \A i \in Invs :
        (GateSkipped(i) \/ ProviderSaidSkip(i)) =>
            /\ Count(i, "create_email_draft_reply") = 0
            /\ Count(i, "can_send_reply") = 0
            /\ Count(i, "save_draft_to_outlook") = 0
            /\ inv[i].pc = "done"
            /\ inv[i].outcome = "Skipped"

\* The provider was asked and labelled a fetched message SKIP.
C6_Witness == \E i \in Invs : ProviderSaidSkip(i) /\ inv[i].pc = "done"

\* The message fetch of invocation i returned no record.
FetchedNothing(i) ==
    \E k \in Entries(i, "getMessage") : calls[i][k].res = "empty"

\* C7: when the message fetch returns no record the invocation ends as a
\* failed fetch and the fetch is the only call it makes.
C7_EmptyFetchFails ==
    \A i \in Invs :
        FetchedNothing(i) =>
            /\ inv[i].pc = "done"
            /\ inv[i].outcome = "FailedFetch"
            /\ Len(calls[i]) = 1

\* A fetch has returned no record.
C7_Witness == \E i \in Invs : FetchedNothing(i) /\ inv[i].pc = "done"

\* The conversation fetch of invocation i returned exactly n messages.
ConversationOf(i, n) ==
    \E k \in Entries(i, "getConversation") :
        calls[i][k].res = "ok" /\ Len(calls[i][k].val) = n

ConversationLonger(i, n) ==
    \E k \in Entries(i, "getConversation") :
        calls[i][k].res = "ok" /\ Len(calls[i][k].val) > n

\* C8: the summarize capability is invoked if and only if the conversation
\* fetch returned more than one message (pc = "summarize" is the point
\* between the two calls); with exactly one message the summary is None and
\* every compose and validate call is made without a summary.
C8_SummarizeIffThread ==
    \A i \in Invs :
        /\ inv[i].pc # "summarize" =>
               (Count(i, "llm.summarize") = 1 <=> ConversationLonger(i, 1))
        /\ Count(i, "llm.summarize") <= 1
        /\ ConversationOf(i, 1) =>
               /\ inv[i].conversation_summary = None
               /\ \A k \in Entries(i, "create_email_draft_reply")
                          \cup Entries(i, "can_send_reply") :
                      calls[i][k].arg[4] = None
               /\ \A k \in Entries(i, "llm.generate") : Len(calls[i][k].arg) = 3
               /\ \A k \in Entries(i, "llm.judge") : Len(calls[i][k].arg) = 3

\* A one-message conversation was fetched and a draft composed and validated.
C8_Witness ==
    \E i \in Invs :
        /\ ConversationOf(i, 1)
        /\ Count(i, "llm.generate") >= 1
        /\ Count(i, "llm.judge") >= 1

\* C9: when the composer raises or returns no draft on attempt n, the
\* invocation ends as a failed composition: no validate call for attempt n,
\* no later compose call and no persist call.
C9_ComposeFailureAborts ==
    \A i \in Invs :
        \A c \in Entries(i, "create_email_draft_reply") :
            calls[i][c].res # "ok" =>
                /\ inv[i].pc = "done"
                /\ inv[i].outcome = "FailedCompose"
                /\ \A v \in Entries(i, "can_send_reply") :
                       calls[i][v].attempt < calls[i][c].attempt
                /\ \A d \in Entries(i, "create_email_draft_reply") :
                       calls[i][d].attempt <= calls[i][c].attempt
                /\ Count(i, "save_draft_to_outlook") = 0
                /\ c = Len(calls[i]) \/ c + 1 = Len(calls[i])

\* The provider failed the first composition while redrafts were allowed.
C9_Witness ==
    \E i \in Invs :
        /\ MAX_REDRAFT_TRIES >= 1
        /\ \E c \in Entries(i, "create_email_draft_reply") :
               calls[i][c].attempt = 0 /\ calls[i][c].res \in {"raise", "None"}

\* C10: when the provider call behind the Quality Gate fails on attempt n,
\* the attempt is rejected with the reason "Validation error: <cause>" and
\* the loop goes on as for any rejection.
C10_ValidatorFailureCarriesCause ==
    \A i \in Invs :
        \A j \in Entries(i, "llm.judge") :
            calls[i][j].res = "raise" =>
                \A v \in Entries(i, "can_send_reply") :
                    calls[i][v].attempt = calls[i][j].attempt =>
                        /\ calls[i][v].res = "rejected"
                        /\ Head(calls[i][v].val) = "Validation error:"

\* The provider call behind the Response Gate failed in invocation i.
ClassifierFailed(i) ==
    \E k \in Entries(i, "llm.classify") : calls[i][k].res = "raise"

PersistStepFailed(i) ==
    \/ \E k \in Entries(i, "createReply") : calls[i][k].res \in {"raise", "empty"}
    \/ \E k \in Entries(i, "updateDraft") : calls[i][k].res \in {"raise", "empty", "noid"}

\* Invocation i ended as a failure of the persist stage: save_draft_to_outlook
\* returned False (line 263) or raised (lines 105 and 267).
FailedAtPersist(i) ==
    /\ inv[i].pc = "done"
    /\ inv[i].outcome \in {"FailedPersist", "Raised"}
    /\ calls[i][Len(calls[i])].op \in {"save_draft_to_outlook", "createReply", "updateDraft"}

\* C12: a persist failure ends the invocation as failed at the persist stage;
\* the persist is never retried and no compose or validate call follows a
\* persist call.
C12_PersistFailureIsFinal ==
    \A i \in Invs :
        /\ PersistStepFailed(i) => FailedAtPersist(i)
        /\ Count(i, "save_draft_to_outlook") <= 1
        /\ Count(i, "createReply") <= 1
        /\ \A p \in Entries(i, "save_draft_to_outlook") :
               \A k \in Entries(i, "create_email_draft_reply")
                        \cup Entries(i, "can_send_reply") : k < p

\* The update step has answered without an identifier after a successful create.
C12_Witness ==
    \E i \in Invs :
        /\ \E k \in Entries(i, "createReply") : calls[i][k].res = "ok"
        /\ \E k \in Entries(i, "updateDraft") : calls[i][k].res = "noid"

\* Both gateway steps of the persist of invocation i answered with an identifier.
BothStepsGaveId(i) ==
    /\ \E k \in Entries(i, "createReply") : calls[i][k].res = "ok"
    /\ \E k \in Entries(i, "updateDraft") : calls[i][k].res = "ok"

\* C13: the persister reports success if and only if both steps answered with
\* an identifier, and a failure at either step yields the boolean False.
C13_PersisterSuccessIffBothIds ==
    \A i \in Invs :
        (inv[i].pc = "done" /\ Count(i, "save_draft_to_outlook") = 1) =>
            /\ inv[i].success = "True" <=> BothStepsGaveId(i)
            /\ ~BothStepsGaveId(i) => inv[i].success = "False"

\* The PATCH of invocation i was made and did not go through.
UpdateFailed(i) ==
    \E k \in Entries(i, "updateDraft") : calls[i][k].res \in {"raise", "empty"}

\* C14: the update is made only after createReply gave an id and is addressed
\* to that id; no call follows the update, so a failed update leaves the
\* created draft unfilled in the mailbox while the invocation ends in failure.
C14_CreateThenUpdateNoRollback ==
    \A i \in Invs :
        /\ \A k \in Entries(i, "updateDraft") :
               /\ k > 1
               /\ calls[i][k - 1].op = "createReply"
               /\ calls[i][k - 1].res = "ok"
               /\ calls[i][k].arg[1] = calls[i][k - 1].val[1]
               /\ k = Len(calls[i])
        /\ UpdateFailed(i) =>
               /\ inv[i].pc = "done"
               /\ inv[i].outcome \in {"FailedPersist", "Raised"}
               /\ inv[i].draft_id \in DOMAIN mailbox
               /\ mailbox[inv[i].draft_id] =
                      [replyTo |-> inv[i].message_id, content |-> <<>>]

C14_Witness ==
    \E i \in Invs : UpdateFailed(i) /\ inv[i].pc = "done"

\* Every compose call of invocation i gave back a draft.
EveryComposeGaveText(i) ==
    \A c \in Entries(i, "create_email_draft_reply") : calls[i][c].res = "ok"

\* C15: with a RESPOND classification, a composer that gives text on every
\* call and a first acceptance on attempt k, the invocation makes exactly k+1
\* compose calls, k+1 validate calls and one persist call (pc = "persist" is
\* the point just before it), and ends Persisted when the persist succeeds.
C15_AcceptOnAttemptKCounts ==
    \A i \in Invs :
        \A v \in Entries(i, "can_send_reply") :
            (calls[i][v].res = "accepted" /\ EveryComposeGaveText(i)) =>
                /\ \E g \in Entries(i, "can_respond_to_email") : calls[i][g].res = "RESPOND"
                /\ \A w \in Entries(i, "can_send_reply") :
                       calls[i][w].res = "accepted" => w = v
                /\ Count(i, "create_email_draft_reply") = calls[i][v].attempt + 1
                /\ Count(i, "can_send_reply") = calls[i][v].attempt + 1
                /\ Count(i, "save_draft_to_outlook") =
                       (IF inv[i].pc = "persist" THEN 0 ELSE 1)
                /\ (inv[i].pc = "done" /\ inv[i].success = "True") =>
                       inv[i].outcome = "Persisted"

\* Scenario A: one message in the thread, accepted on attempt 0, persisted.
C15_Witness ==
    \E i \in Invs :
        /\ inv[i].pc = "done" /\ inv[i].outcome = "Persisted"
        /\ ConversationOf(i, 1)
        /\ Count(i, "create_email_draft_reply") = 1
        /\ Count(i, "can_send_reply") = 1
        /\ Count(i, "save_draft_to_outlook") = 1
        /\ \E v \in Entries(i, "can_send_reply") :
               calls[i][v].res = "accepted" /\ calls[i][v].attempt = 0

\* The reply drafts the mailbox holds for the message.
DraftsFor(message_id) == { d \in DOMAIN mailbox : mailbox[d].replyTo = message_id }

\* The Quality Gate accepted a draft of invocation i.
Accepted(i) == \E v \in Entries(i, "can_send_reply") : calls[i][v].res = "accepted"

\* Invocation i created a reply draft.
CreatedDraft(i) == \E k \in Entries(i, "createReply") : calls[i][k].res = "ok"

\* C16: when one "created" notification is delivered twice, every invocation
\* whose draft was accepted makes its persist call and asks the gateway for a
\* reply draft, whatever the other invocation did, and the mailbox holds one
\* draft for the message per invocation that created one: nothing limits the
\* drafts of one message to one.
C16_NoAtMostOneDraftPerMessage ==
    /\ \A i \in Invs :
           (Accepted(i) /\ inv[i].pc # "persist") =>
               /\ Count(i, "save_draft_to_outlook") = 1
               /\ Count(i, "createReply") = 1
    /\ \A i, j \in Invs :
           (inv[i].pc \notin {"idle", "unused", "start"}
               /\ inv[j].pc \notin {"idle", "unused", "start"}) =>
               inv[i].message_id = inv[j].message_id
    /\ Cardinality(DraftsFor(<<"m1">>)) = Cardinality({ i \in Invs : CreatedDraft(i) })

\* Both invocations of the duplicated notification persisted a draft: the
\* mailbox holds two reply drafts for the one message.
C16_Witness ==
    /\ Cardinality(DraftsFor(<<"m1">>)) = 2
    /\ \A i \in 1..2 :
           /\ inv[i].pc = "done" /\ inv[i].outcome = "Persisted"
           /\ Accepted(i)
           /\ \E k \in Entries(i, "can_respond_to_email") : calls[i][k].res = "RESPOND"

\* Invocation i has sent a request through the shared client, which wrote
\* the client's headers.
WroteHeaders(i) == \E k \in 1..Len(calls[i]) : calls[i][k].op \in GatewayOps

InFlight(i) == inv[i].pc \notin {"idle", "unused", "done"}

ProviderGaveDrafts(i) ==
    \A g \in Entries(i, "llm.generate") :
        calls[i][g].res = "ok" /\ ~Falsy(DraftOf(calls[i][g].val))

AllBefore(i, a, b) == \A x \in Entries(i, a), y \in Entries(i, b) : x < y

\* C20 as stated: the message fetch, the conversation fetch and the
\* summarization come before the Response Gate, the gate before every compose
\* call, and the persist call after the last validate call.
C20_StageOrdering ==
    \A i \in Invs :
        /\ AllBefore(i, "getMessage", "can_respond_to_email")
        /\ AllBefore(i, "getConversation", "can_respond_to_email")
        /\ AllBefore(i, "create_conversation_summary", "can_respond_to_email")
        /\ AllBefore(i, "can_respond_to_email", "create_email_draft_reply")
        /\ AllBefore(i, "can_send_reply", "save_draft_to_outlook")

\* C20, amended: the message fetch comes before the Response Gate; the
\* conversation fetch and the summarization come after the gate, are made
\* only when the gate said RESPOND, and come before every compose call; the
\* persist call comes after the last validate call.
C20_StageOrderingGateFirst ==
    \A i \in Invs :
        /\ AllBefore(i, "getMessage", "can_respond_to_email")
        /\ AllBefore(i, "can_respond_to_email", "getConversation")
        /\ AllBefore(i, "getConversation", "create_conversation_summary")
        /\ AllBefore(i, "getConversation", "create_email_draft_reply")
        /\ AllBefore(i, "create_conversation_summary", "create_email_draft_reply")
        /\ AllBefore(i, "can_respond_to_email", "create_email_draft_reply")
        /\ AllBefore(i, "can_send_reply", "save_draft_to_outlook")
        /\ \A k \in Entries(i, "getConversation") \cup Entries(i, "create_email_draft_reply") :
               /\ Count(i, "getMessage") = 1
               /\ \E g \in Entries(i, "can_respond_to_email") : calls[i][g].res = "RESPOND"
               /\ ~ProviderSaidSkip(i)

\* An invocation went through every stage: fetch, gate, conversation fetch,
\* summary, compose, validate and persist.
C20_Witness ==
    \E i \in Invs :
        /\ inv[i].pc = "done"
        /\ Count(i, "getMessage") = 1
        /\ Count(i, "can_respond_to_email") = 1
        /\ Count(i, "getConversation") = 1
        /\ Count(i, "create_conversation_summary") = 1
        /\ Count(i, "create_email_draft_reply") >= 1
        /\ Count(i, "can_send_reply") >= 1
        /\ Count(i, "save_draft_to_outlook") = 1

\* The message fetch of invocation i raised or returned no record.
MessageFetchFailed(i) ==
    \E k \in Entries(i, "getMessage") : calls[i][k].res \in {"raise", "empty"}

\* The conversation fetch of invocation i raised or returned no message.
ConversationFetchFailed(i) ==
    \E k \in Entries(i, "getConversation") :
        calls[i][k].res = "raise" \/ (calls[i][k].res = "ok" /\ calls[i][k].val = <<>>)

NoDraftingCalls(i) ==
    /\ Count(i, "create_email_draft_reply") = 0
    /\ Count(i, "can_send_reply") = 0
    /\ Count(i, "save_draft_to_outlook") = 0

\* C21 as stated: a failure of the message fetch or of the conversation
\* fetch ends the invocation as failed with no compose, validate or persist
\* call afterwards.
C21_EveryFetchFailureAborts ==
    \A i \in Invs :
        (MessageFetchFailed(i) \/ ConversationFetchFailed(i)) =>
            /\ inv[i].pc = "done"
            /\ inv[i].outcome \in {"FailedFetch", "Raised"}
            /\ NoDraftingCalls(i)

\* C21, amended: a failure of the message fetch ends the invocation as failed
\* with no further call; a failure of the conversation fetch is logged and
\* the workflow goes on to compose without a summary.
C21_MessageFetchFailureAborts ==
    \A i \in Invs :
        /\ MessageFetchFailed(i) =>
               /\ inv[i].pc = "done"
               /\ inv[i].outcome \in {"FailedFetch", "Raised"}
               /\ NoDraftingCalls(i)
               /\ Len(calls[i]) = 1
        /\ ConversationFetchFailed(i) =>
               /\ Count(i, "create_conversation_summary") = 0
               /\ inv[i].conversation_summary = None
               /\ inv[i].pc = "compose" \/ Count(i, "create_email_draft_reply") >= 1
               /\ \A c \in Entries(i, "create_email_draft_reply") :
                      calls[i][c].arg[4] = None

\* The conversation fetch raised and the invocation went on to persist a draft.
C21_Witness ==
    \E i \in Invs :
        /\ \E k \in Entries(i, "getConversation") : calls[i][k].res = "raise"
        /\ inv[i].pc = "done" /\ inv[i].outcome = "Persisted"

\* The summarize call of invocation i raised or answered with blank text.
SummarizeFailed(i) ==
    \E k \in Entries(i, "llm.summarize") :
        calls[i][k].res = "raise" \/ Falsy(Strip(calls[i][k].val))

\* C22: when the summarize call errors or returns an empty result the
\* workflow goes on into the compose/validate loop with no summary: the
\* summary is None, and every compose and validate call is made without one.
C22_SummarizeFailureIsNotFatal ==
    \A i \in Invs :
        SummarizeFailed(i) =>
            /\ inv[i].conversation_summary = None
            /\ inv[i].pc = "compose" \/ Count(i, "create_email_draft_reply") >= 1
            /\ \A c \in Entries(i, "create_email_draft_reply") : calls[i][c].arg[4] = None
            /\ \A v \in Entries(i, "can_send_reply") : calls[i][v].arg[4] = None
            /\ \A s \in Entries(i, "create_conversation_summary") :
                   calls[i][s].res = "None"

\* The summarize call failed and the invocation still persisted a draft.
C22_Witness ==
    \E i \in Invs :
        /\ SummarizeFailed(i)
        /\ inv[i].pc = "done" /\ inv[i].outcome = "Persisted"

\* The messages of `thread` other than the message `id`, in their order.
Others(thread, id) == SelectSeq(thread, LAMBDA m : m # id)

\* C23: for a conversation of two or more messages holding the triggering
\* message, in whatever order the gateway returned them, the summarize
\* capability is given exactly the returned messages other than the
\* triggering one, in their returned order.
C23_SummaryLeavesOutTriggeringMessage ==
    \A i \in Invs :
        \A s \in Entries(i, "llm.summarize") :
            \A k \in Entries(i, "getConversation") :
                LET thread == calls[i][k].val
                    id == inv[i].message_id[1]
                IN  (\E n \in 1..Len(thread) : thread[n] = id) =>
                        calls[i][s].arg = Others(thread, id)

\* The reason the orchestrator puts in when the validator gave none (line 224).
Placeholder == <<"No reason provided">>

\* C24: the reason of every verdict is the Quality Gate's own justification
\* for that draft, never a text the orchestrator put in its place; after a
\* rejection with attempts left, that reason is the feedback retained.
C24_VerdictCarriesGateReason ==
    \A i \in Invs :
        \A v \in Entries(i, "can_send_reply") :
            /\ ~Falsy(calls[i][v].val)
            /\ calls[i][v].val # Placeholder
            /\ (calls[i][v].res = "rejected" /\ calls[i][v].attempt < MAX_REDRAFT_TRIES
                   /\ v = Len(calls[i]) /\ inv[i].pc = "compose") =>
                   inv[i].previous_draft_rejection_reason = calls[i][v].val

\* The outcomes of an invocation that ended as failed.
FailedOutcomes == {"FailedFetch", "FailedCompose", "FailedPersist", "Raised", "Unexpected"}

\* The terminal outcomes of the workflow.
TerminalOutcomes == {"Persisted", "Skipped", "Abandoned"} \cup FailedOutcomes

\* C25: every invocation terminates.  Once scheduled it returns, and once it
\* has accepted its notification it ends persisted, skipped, abandoned or
\* failed, for every MAX_REDRAFT_TRIES >= 0 and every sequence of verdicts.
C25_EveryInvocationTerminates ==
    \A i \in Invs :
        /\ (inv[i].pc = "start") ~> (inv[i].pc = "done")
        /\ (inv[i].pc = "fetch") ~>
               (inv[i].pc = "done" /\ inv[i].outcome \in TerminalOutcomes)

\* An invocation has ended after a rejected draft.
C25_Witness ==
    \E i \in Invs :
        /\ inv[i].pc = "done" /\ inv[i].outcome \in TerminalOutcomes
        /\ \E v \in Entries(i, "can_send_reply") : calls[i][v].res = "rejected"

\* The endpoint's answer to a notification it accepted.
Accepted202 ==
    [status |-> 202, content |-> "Notification received", media_type |-> "none",
     scheduled |-> TRUE]

\* C26: a request without a validation token and with a JSON body is answered
\* 202 and schedules one invocation; the other requests schedule none; and
\* the response, once given, stays the same whatever the invocation does and
\* however it ends.
C26_AcknowledgedBeforeProcessing ==
    /\ [](\A i \in Invs :
             /\ inv[i].pc \notin {"idle", "unused"} <=> responses[i] = Accepted202
             /\ responses[i].status = 202 => inv[i].pc \notin {"idle", "unused"}
             /\ inv[i].pc = "unused" <=> responses[i].status \in {200, 400}
             /\ inv[i].pc = "done" => responses[i] = Accepted202)
    /\ [][\A i \in Invs : responses[i] # NoResponse => responses[i]' = responses[i]]_vars

\* An invocation failed with an exception after its request was answered 202.
C26_Witness ==
    \E i \in Invs :
        /\ inv[i].pc = "done" /\ inv[i].outcome = "Raised"
        /\ responses[i] = Accepted202

\* The sanitizer's parser raised on a field of the message of invocation i.
SanitizerFailed(i) == \E k \in Entries(i, "clean_html") : calls[i][k].res = "raise"

\* What the sanitizer makes of a text when its parser does not raise.
Sanitized(text) == IF Falsy(text) THEN <<>> ELSE Strip(CollapseWS(GetText(text)))

\* C27: when the sanitizer fails on the subject or on the body it gives back
\* the original text of that field, the other field is sanitized on its own,
\* and the workflow goes on to the Response Gate with the two texts.
C27_SanitizerFailureDegrades ==
    \A i \in Invs :
        SanitizerFailed(i) =>
            /\ Count(i, "clean_html") = 2
            /\ \A k \in Entries(i, "clean_html") :
                   calls[i][k].val = IF calls[i][k].res = "raise"
                                     THEN calls[i][k].arg
                                     ELSE Sanitized(calls[i][k].arg)
            /\ \E s, b \in Entries(i, "clean_html") :
                   /\ s < b
                   /\ inv[i].email_data.clean_subject = calls[i][s].val
                   /\ inv[i].email_data.clean_body = calls[i][b].val
            /\ inv[i].pc = "classify" \/ Count(i, "can_respond_to_email") = 1
            /\ \A g \in Entries(i, "can_respond_to_email") :
                   calls[i][g].arg = <<inv[i].email_data.clean_subject,
                                       inv[i].email_data.clean_body>>

\* The sanitizer failed on one field and cleaned the other, and the Response
\* Gate was asked.
C27_Witness ==
    \E i \in Invs :
        /\ \E k, n \in Entries(i, "clean_html") :
               /\ calls[i][k].res = "raise"
               /\ calls[i][n].res = "ok" /\ calls[i][n].val # calls[i][n].arg
        /\ Count(i, "can_respond_to_email") = 1

\* C28: every create-reply-draft call of an invocation comes after a validate
\* call of that invocation that accepted exactly the content being
\* persisted, and that validate call is the invocation's last; what the
\* mailbox holds in a draft is nothing yet or a content so accepted.
C28_NoDraftWithoutAcceptance ==
    \A i \in Invs :
        /\ \A p \in Entries(i, "createReply") :
               \E v \in Entries(i, "can_send_reply") :
                   /\ v < p
                   /\ calls[i][v].res = "accepted"
                   /\ \A w \in Entries(i, "can_send_reply") : w <= v
                   /\ \A s \in Entries(i, "save_draft_to_outlook") :
                          calls[i][s].arg = calls[i][v].arg[3]
                   /\ \A u \in Entries(i, "updateDraft") :
                          calls[i][u].arg[2] = calls[i][v].arg[3]
        /\ \A u \in Entries(i, "updateDraft") :
               (calls[i][u].res \in {"ok", "noid"}) =>
                   mailbox[calls[i][u].arg[1]].content \in
                       { calls[i][v].arg[3] : v \in { w \in Entries(i, "can_send_reply") :
                                                        calls[i][w].res = "accepted" } }

\* A draft was created in the mailbox and filled.
C28_Witness ==
    \E i \in Invs :
        /\ Count(i, "createReply") = 1
        /\ \E u \in Entries(i, "updateDraft") : calls[i][u].res = "ok"
        /\ \E d \in DOMAIN mailbox : mailbox[d].content # <<>>

\* C29: an invocation has an outcome exactly when it has ended, the outcome
\* is one of the terminal outcomes (or the notification was dropped before
\* the workflow began), what each outcome says of the calls made keeps the
\* outcomes apart, and an ended invocation makes no further call and keeps
\* its outcome.
C29_OneAbsorbingOutcome ==
    /\ [](\A i \in Invs :
             /\ inv[i].outcome # "none" <=> inv[i].pc = "done"
             /\ inv[i].pc = "done" => inv[i].outcome \in TerminalOutcomes \cup {"Dropped"}
             /\ inv[i].outcome = "Dropped" => calls[i] = <<>>
             /\ inv[i].outcome = "Persisted" =>
                    \E u \in Entries(i, "updateDraft") : calls[i][u].res = "ok"
             /\ inv[i].outcome = "Skipped" => GateSkipped(i) /\ NoDraftingCalls(i)
             /\ inv[i].outcome = "Abandoned" =>
                    /\ ~Accepted(i) /\ ~GateSkipped(i)
                    /\ Count(i, "save_draft_to_outlook") = 0
                    /\ Count(i, "can_send_reply") >= 1
             /\ inv[i].outcome \in FailedOutcomes =>
                    /\ ~GateSkipped(i)
                    /\ \A u \in Entries(i, "updateDraft") : calls[i][u].res # "ok"
                    /\ Accepted(i) \/ Count(i, "can_send_reply") = 0
                          \/ inv[i].outcome \in {"FailedCompose", "Unexpected"})
    /\ [][\A i \in Invs :
             inv[i].outcome # "none" => (inv[i]' = inv[i] /\ calls[i]' = calls[i])]_vars

\* An invocation has ended abandoned, after calls of its own.
C29_Witness ==
    \E i \in Invs :
        /\ inv[i].pc = "done"
        /\ inv[i].outcome = "Abandoned"
        /\ Len(calls[i]) > 0

\* C30: a redraft never reaches the language provider.  Every compose call
\* of an attempt n >= 1 is made with the previous draft and the rejection
\* reason as two extra arguments and fails before any request to the
\* provider, and the invocation ends there as a failed compose; so at most
\* one validate call is made, and a persisted draft is the draft of attempt 0.
C30_RedraftNeverReachesProvider ==
    \A i \in Invs :
        /\ \A c \in Entries(i, "create_email_draft_reply") :
               calls[i][c].attempt >= 1 =>
                   /\ Len(calls[i][c].arg) = 6
                   /\ calls[i][c].arg[5] = inv[i].previous_draft
                   /\ calls[i][c].arg[6] = inv[i].previous_draft_rejection_reason
                   /\ calls[i][c].res = "TypeError"
                   /\ c = Len(calls[i])
                   /\ inv[i].pc = "done" /\ inv[i].outcome = "FailedCompose"
        /\ \A g \in Entries(i, "llm.generate") : calls[i][g].attempt = 0
        /\ Count(i, "can_send_reply") <= 1
        /\ \A s \in Entries(i, "save_draft_to_outlook") :
               /\ calls[i][s].attempt = 0
               /\ \E c \in Entries(i, "create_email_draft_reply") :
                      calls[i][c].attempt = 0 /\ calls[i][c].val = calls[i][s].arg

\* A draft was rejected with attempts left and the redraft was called for.
C30_Witness ==
    \E i \in Invs :
        /\ \E v \in Entries(i, "can_send_reply") : calls[i][v].res = "rejected"
        /\ \E c \in Entries(i, "create_email_draft_reply") : calls[i][c].attempt = 1
        /\ inv[i].pc = "done"


\* The message of invocation i has been fetched: its record is in the locals.
HasEmail(i) == inv[i].email_data # NoEmail

\* The cleaned subject, the cleaned body or the sender of the message is empty.
LacksField(i) ==
    \/ Falsy(inv[i].email_data.clean_subject)
    \/ Falsy(inv[i].email_data.clean_body)
    \/ Falsy(inv[i].email_data.sender)

\* The Response Gate said RESPOND for the message of invocation i.
GateResponded(i) ==
    \E k \in Entries(i, "can_respond_to_email") : calls[i][k].res = "RESPOND"

\* C31: a message whose cleaned subject, cleaned body or sender is empty
\* never yields a draft.  The composer is called on attempt 0 at most, gives
\* no draft and sends no request to the provider; no validate and no persist
\* call is made, the mailbox gets no draft, and once the gate has said RESPOND
\* the invocation ends as a failed compose.
C31_MissingFieldYieldsNoDraft ==
    \A i \in Invs :
        (HasEmail(i) /\ LacksField(i)) =>
            /\ \A c \in Entries(i, "create_email_draft_reply") :
                   /\ calls[i][c].attempt = 0
                   /\ calls[i][c].res = "None"
                   /\ calls[i][c].val = None
                   /\ c = Len(calls[i])
            /\ Count(i, "create_email_draft_reply") <= 1
            /\ Count(i, "llm.generate") = 0
            /\ Count(i, "can_send_reply") = 0
            /\ Count(i, "save_draft_to_outlook") = 0
            /\ Count(i, "createReply") = 0
            /\ DraftsFor(inv[i].message_id) = {}
            /\ inv[i].attempt = 0
            /\ (GateResponded(i) /\ inv[i].pc = "done") =>
                   /\ inv[i].outcome = "FailedCompose"
                   /\ Count(i, "create_email_draft_reply") = 1

\* The gate said RESPOND for a message with a subject and a body but no
\* sender, and the invocation ended at the composer.
C31_Witness ==
    \E i \in Invs :
        /\ HasEmail(i)
        /\ Falsy(inv[i].email_data.sender)
        /\ ~Falsy(inv[i].email_data.clean_subject)
        /\ ~Falsy(inv[i].email_data.clean_body)
        /\ GateResponded(i)
        /\ inv[i].pc = "done" /\ inv[i].outcome = "FailedCompose"


\* C32: when the Response Gate returns SKIP the external calls of the
\* invocation are the one message fetch and the classify call (which is not
\* made for a message with neither subject nor body): no conversation fetch
\* and no summarize call.  A conversation fetch or a summarize call is made
\* only after the gate has said RESPOND.
C32_SkipGathersNoContext ==
    \A i \in Invs :
        /\ GateSkipped(i) =>
               /\ \A k \in ExternalCalls(i) : calls[i][k].op \in {"getMessage", "llm.classify"}
               /\ Count(i, "getMessage") = 1
               /\ Count(i, "llm.classify") =
                      (IF ClassifyAsksProvider(inv[i].email_data.clean_subject,
                                               inv[i].email_data.clean_body)
                       THEN 1 ELSE 0)
               /\ Count(i, "getConversation") = 0
               /\ Count(i, "create_conversation_summary") = 0
               /\ Count(i, "llm.summarize") = 0
               /\ inv[i].conversation_messages = <<>>
               /\ inv[i].conversation_summary = None
               /\ inv[i].pc = "done" /\ inv[i].outcome = "Skipped"
        /\ \A k \in Entries(i, "getConversation") \cup Entries(i, "llm.summarize") :
               \E g \in Entries(i, "can_respond_to_email") :
                   g < k /\ calls[i][g].res = "RESPOND"

\* The provider labelled SKIP a message that belongs to a conversation.
C32_Witness ==
    \E i \in Invs :
        /\ ProviderSaidSkip(i)
        /\ GateSkipped(i)
        /\ ~Falsy(inv[i].email_data.conversation_id)
        /\ inv[i].pc = "done"


\* The notifications after the first in the payload of invocation i.
LaterNotes(i) == Tail(inv[i].payload.value)

\* The first notification of invocation i is one the workflow processes.
FirstNoteProcessed(i) ==
    /\ HasNote(i)
    /\ FirstNote(i).changeType = "created"
    /\ RefersToMessage(FirstNote(i).resource)

\* The slots a request has been scheduled on.
Scheduled == { i \in Invs : inv[i].pc \notin {"idle", "unused"} }

\* C33: a payload with several notifications is processed for its first
\* entry only.  One request schedules one invocation at most; every call the
\* invocation makes is for the message of the first entry, and when the first
\* entry is not processed no call is made at all, whatever the later entries
\* are; an empty value list causes no call.
C33_OnlyFirstNotificationProcessed ==
    /\ Cardinality(Scheduled) + toDeliver <= 1
    /\ \A i \in Scheduled :
           /\ (inv[i].pc # "start" /\ ~FirstNoteProcessed(i)) =>
                  /\ calls[i] = <<>>
                  /\ inv[i].pc = "done" /\ inv[i].outcome = "Dropped"
                  /\ inv[i].message_id = None
           /\ (inv[i].pc # "start" /\ FirstNoteProcessed(i)) =>
                  inv[i].message_id = MessageIdOf(FirstNote(i).resource)
           /\ Count(i, "getMessage") <= 1
           /\ Count(i, "can_respond_to_email") <= 1
           /\ Count(i, "save_draft_to_outlook") <= 1
           /\ \A k \in Entries(i, "getMessage") \cup Entries(i, "createReply") :
                  /\ FirstNoteProcessed(i)
                  /\ calls[i][k].arg = MessageIdOf(FirstNote(i).resource)
           /\ \A d \in DOMAIN mailbox :
                  /\ FirstNoteProcessed(i)
                  /\ mailbox[d].replyTo = MessageIdOf(FirstNote(i).resource)

\* A payload whose first notification is ignored and whose second is a
\* "created" notification for another message has been handled: no call.
C33_Witness ==
    \E i \in Invs :
        /\ inv[i].pc = "done"
        /\ Len(inv[i].payload.value) = 2
        /\ FirstNote(i).changeType = "updated"
        /\ LaterNotes(i)[1].changeType = "created"
        /\ RefersToMessage(LaterNotes(i)[1].resource)
        /\ calls[i] = <<>>


\* The n-th request invocation i sent through the gateway client, as the
\* position of its entry in the log.
NthRequest(i, n) ==
    CHOOSE k \in Requested(i) : Cardinality({ m \in Requested(i) : m <= k }) = n

Refused(i) == responses[i].status \in {200, 400}

\* C35: the endpoint starts no workflow for a handshake or a malformed
\* request.  A request with a validationToken is answered 200 with that token
\* as plain text, whatever its body is, and a request whose body is not JSON
\* is answered 400; neither schedules an invocation: the slot keeps the
\* locals it had, makes no call then or later, and nothing is written to the
\* mailbox for it.
C35_HandshakeAndBadBodyStartNothing ==
    /\ [][\A i \in Invs : \A req \in Requests :
             Notify(i, req) =>
                 /\ req.validationToken # "" =>
                        /\ responses'[i] = Handshake(req.validationToken)
                        /\ responses'[i].media_type = "text/plain"
                        /\ responses'[i].content = req.validationToken
                        /\ inv'[i] = [Idle EXCEPT !.pc = "unused"]
                 /\ (req.validationToken = "" /\ ~req.json) =>
                        /\ responses'[i].status = 400
                        /\ inv'[i] = [Idle EXCEPT !.pc = "unused"]
                 /\ (req.validationToken # "" \/ ~req.json) =>
                        /\ ~responses'[i].scheduled
                        /\ calls' = calls /\ mailbox' = mailbox /\ headers' = headers
                        /\ \A j \in Invs \ {i} : inv'[j] = inv[j]]_vars
    /\ [](\A i \in Invs :
             Refused(i) =>
                 /\ inv[i] = [Idle EXCEPT !.pc = "unused"]
                 /\ calls[i] = <<>>
                 /\ ~responses[i].scheduled)
    /\ [](\A i \in Invs : inv[i].pc \notin {"idle", "unused"} => responses[i].status = 202)

\* A handshake has been answered with its token and nothing was started.
C35_Witness ==
    \E i \in Invs :
        /\ responses[i] = Handshake("tok")
        /\ inv[i].pc = "unused"
        /\ toDeliver = 0

====
